---- MODULE Spec2Model ----
(***************************************************************************)
(* Echo client/server templates (templates/python/echo) on the actr        *)
(* runtime: the client workload's on_start / dispatch / console loop, the  *)
(* server's echo handler, and the runtime contract they run on.            *)
(* asyncio is cooperative: the code between two awaits is one step.        *)
(***************************************************************************)
EXTENDS Integers, Sequences, FiniteSets, TLC

\* ---------------------------------------------------------------- bounds
MaxInv == 2        \* dispatch invocations the runtime creates in one run
MaxShutdown == 2   \* reference.shutdown() requests in one run

\* ------------------------------------------------------------- constants
None == "None"
EchoRoute == "echo.EchoService.Echo"
OtherRoute == "echo.EchoService.Other"

ServerIds == {"B"}

Hi == <<"h", "i">>
Quit == <<"q", "u", "i", "t">>
Exit == <<"e", "x", "i", "t">>
EchoPrefix == <<"E", "c", "h", "o", ":", " ">>
NotAvailable == <<"s", "e", "r", "v", "e", "r", " ", "n", "o", "t", " ",
                  "a", "v", "a", "i", "l", "a", "b", "l", "e">>

\* lines typed at the console prompt, before strip()
ConsoleLines == {Hi, <<" ", "h", "i", " ">>, <<>>, <<" ">>, Quit, <<"e", "x", "i", "t", " ">>}
\* calls arriving from other actors: route key and request message
RemoteCalls == {<<EchoRoute, Hi>>, <<EchoRoute, <<>> >>, <<OtherRoute, Hi>>}

\* values of int(time.time()): the clock is past the epoch
Times == {1, 2}

Whitespace == {" ", "\t", "\n"}

\* ------------------------------------------------- str.strip()
RECURSIVE lstrip(_)
lstrip(s) ==
    IF s # <<>> /\ Head(s) \in Whitespace THEN lstrip(Tail(s)) ELSE s

RECURSIVE rstrip(_)
rstrip(s) ==
    IF s # <<>> /\ s[Len(s)] \in Whitespace
    THEN rstrip(SubSeq(s, 1, Len(s) - 1))
    ELSE s

strip(s) == rstrip(lstrip(s))

\* ------------------------------------------------- protobuf (proto3) messages
\* A serialized message is the sequence of its fields that differ from
\* their default, in field-number order; parsing restores the defaults.
Field(tag, str, int) == [tag |-> tag, str |-> str, int |-> int]

EchoRequest(message) == [message |-> message]
EchoResponse(reply, timestamp) == [reply |-> reply, timestamp |-> timestamp]

SerializeRequest(req) ==
    IF req.message = <<>> THEN <<>> ELSE <<Field(1, req.message, 0)>>

SerializeResponse(resp) ==
    (IF resp.reply = <<>> THEN <<>> ELSE <<Field(1, resp.reply, 0)>>)
    \o (IF resp.timestamp = 0 THEN <<>> ELSE <<Field(2, <<>>, resp.timestamp)>>)

RECURSIVE FieldStr(_, _)
FieldStr(bytes, tag) ==
    IF bytes = <<>> THEN <<>>
    ELSE IF bytes[Len(bytes)].tag = tag THEN bytes[Len(bytes)].str
    ELSE FieldStr(SubSeq(bytes, 1, Len(bytes) - 1), tag)

RECURSIVE FieldInt(_, _)
FieldInt(bytes, tag) ==
    IF bytes = <<>> THEN 0
    ELSE IF bytes[Len(bytes)].tag = tag THEN bytes[Len(bytes)].int
    ELSE FieldInt(SubSeq(bytes, 1, Len(bytes) - 1), tag)

ParseRequest(bytes) == EchoRequest(FieldStr(bytes, 1))
ParseResponse(bytes) == EchoResponse(FieldStr(bytes, 1), FieldInt(bytes, 2))

\* variant: the reply is the message alone, without the "Echo: " prefix
echo_noPrefix(req, time) == EchoResponse(req.message, time)

\* ------------------------------------------------- server: EchoService.echo
echo(req, time) == EchoResponse(EchoPrefix \o req.message, time)

\* ------------------------------------------------------------------ state
\* ================================================ scripts/update-brew-formula.py
\* Text is modelled token by token: a line is a sequence of tokens (a
\* whitespace character, a quote, a word), a text is its lines and whether
\* it ends with a newline.  The formulas considered have no blank line, so
\* the \s of the version pattern never runs across a line end.
MaxDrop == 2       \* lines of FormulaTemplate a formula under test lacks

Quote == "\""
Digits == {"0", "1", "2", "3", "4", "5", "6", "7", "8", "9"}
OctDigits == {"0", "1", "2", "3", "4", "5", "6", "7"}

MacosLabel == "macos-arm64"
LinuxLabel == "linux-x86_64"
\* the dict of lines 53-56, in insertion order
Labels == <<MacosLabel, LinuxLabel>>
targets ==
    (MacosLabel :> "aarch64-apple-darwin") @@ (LinuxLabel :> "x86_64-unknown-linux-gnu")

\* "# TARGET: <label>", lines 78 and 84
Marker(label) == <<"#", " ", "TARGET:", " ", label>>

Repo == "actor-rtc/actr-cli"
\* --version as given: "vrc1", "0.1", "v100"
VersionArgs == {<<"v", "r", "c", "1">>, <<"0", ".", "1">>, <<"v", "1", "0", "0">>}

Text(lines, nl) == [lines |-> lines, nl |-> nl]
File(lines, nl) == [exists |-> TRUE, lines |-> lines, nl |-> nl]
NoFile == [exists |-> FALSE, lines |-> <<>>, nl |-> FALSE]

Ok(value) == [ok |-> TRUE, value |-> value, exc |-> ""]
Raise(exc) == [ok |-> FALSE, value |-> <<>>, exc |-> exc]

\* ------------------------------------------------- str helpers
startswith(s, prefix) ==
    Len(s) >= Len(prefix) /\ SubSeq(s, 1, Len(prefix)) = prefix

\* marker in line
In(marker, line) ==
    \E p \in 1..(Len(line) - Len(marker) + 1) :
        SubSeq(line, p, p + Len(marker) - 1) = marker

\* str.lstrip(chars)
RECURSIVE lstrip_chars(_, _)
lstrip_chars(s, chars) ==
    IF s # <<>> /\ Head(s) \in chars THEN lstrip_chars(Tail(s), chars) ELSE s

\* group 1 of re.match(r"(\s*)word", line)
Indent(line) == SubSeq(line, 1, Len(line) - Len(lstrip(line)))

\* str.split()[0] of a stripped string: the tokens up to the first whitespace
RECURSIVE first_word(_)
first_word(s) ==
    IF s = <<>> \/ Head(s) \in Whitespace THEN <<>>
    ELSE <<Head(s)>> \o first_word(Tail(s))

splitlines(text) == text.lines
\* "\n".join(lines): no newline after the last line
join(lines) == Text(lines, FALSE)

\* int(c, 8) of one octal digit
oct(c) ==
    CASE c = "0" -> 0 [] c = "1" -> 1 [] c = "2" -> 2 [] c = "3" -> 3
      [] c = "4" -> 4 [] c = "5" -> 5 [] c = "6" -> 6 [] c = "7" -> 7

\* chr() of the octal escapes the version arguments can produce
chr(n) == CASE n = 72 -> "H"

\* ------------------------------------------------- read_sha, lines 8-12
\* dist_dir maps a label to the .sha256 file of that label's asset
read_sha(dist_dir, label) ==
    IF ~dist_dir[label].exists
    THEN Raise("FileNotFoundError")
    ELSE LET words == first_word(strip(dist_dir[label].content))
         IN  IF words = <<>> THEN Raise("IndexError") ELSE Ok(words)

\* ------------------------------------------------- replace_after_marker, lines 15-35
UrlWord == <<"url", " ">>
ShaWord == <<"sha256", " ">>

\* for i, line in enumerate(lines): if marker in line   (0: loop ran out)
RECURSIVE find_marker(_, _, _)
find_marker(lines, marker, i) ==
    IF i > Len(lines) THEN 0
    ELSE IF In(marker, lines[i]) THEN i
    ELSE find_marker(lines, marker, i + 1)

\* for j in range(from, len(lines)): if lines[j].lstrip().startswith(word)
RECURSIVE find_line(_, _, _)
find_line(lines, word, j) ==
    IF j > Len(lines) THEN 0
    ELSE IF startswith(lstrip(lines[j]), word) THEN j
    ELSE find_line(lines, word, j + 1)

url_line(indent, url) == indent \o UrlWord \o <<Quote>> \o url \o <<Quote>>
sha_line(indent, sha) == indent \o ShaWord \o <<Quote>> \o sha \o <<Quote>>

replace_after_marker_shaFromMarker(text, marker, url, sha) ==
    LET lines == splitlines(text)
        i == find_marker(lines, marker, 1)
    IN  IF i = 0 THEN Raise("ValueError")
        ELSE LET url_index == find_line(lines, UrlWord, i + 1)
             IN  IF url_index = 0 THEN Raise("ValueError")
                 ELSE LET lines1 == [lines EXCEPT
                                       ![url_index] = url_line(Indent(@), url)]
                          k == find_line(lines1, ShaWord, i + 1)
                      IN  IF k = 0 THEN Raise("ValueError")
                          ELSE Ok(join([lines1 EXCEPT
                                          ![k] = sha_line(Indent(@), sha)]))

replace_after_marker(text, marker, url, sha) ==
    LET lines == splitlines(text)
        i == find_marker(lines, marker, 1)
    IN  IF i = 0 THEN Raise("ValueError")
        ELSE LET url_index == find_line(lines, UrlWord, i + 1)
             IN  IF url_index = 0 THEN Raise("ValueError")
                 ELSE LET lines1 == [lines EXCEPT
                                       ![url_index] = url_line(Indent(@), url)]
                          k == find_line(lines1, ShaWord, url_index + 1)
                      IN  IF k = 0 THEN Raise("ValueError")
                          ELSE Ok(join([lines1 EXCEPT
                                          ![k] = sha_line(Indent(@), sha)]))

\* ------------------------------------------------- re.subn, lines 67-72
\* index of the first token at or after p that is no whitespace
RECURSIVE skip_space(_, _)
skip_space(line, p) ==
    IF p <= Len(line) /\ line[p] \in Whitespace THEN skip_space(line, p + 1) ELSE p

\* index of the first quote at or after p (0: none)
RECURSIVE find_quote(_, _)
find_quote(line, p) ==
    IF p > Len(line) THEN 0
    ELSE IF line[p] = Quote THEN p
    ELSE find_quote(line, p + 1)

\* ^(\s*version\s+")([^"]+)(") on one line: where group 1 ends and where
\* group 3 is, or open = 0 when the line does not match
version_match(line) ==
    LET a == skip_space(line, 1)
        b == skip_space(line, a + 1)
        c == find_quote(line, b + 1)
    IN  IF /\ a <= Len(line) /\ line[a] = "version"
           /\ b > a + 1 /\ b <= Len(line) /\ line[b] = Quote
           /\ c > b + 1
        THEN [open |-> b, close |-> c]
        ELSE [open |-> 0, close |-> 0]

\* the replacement template rf"\1{version}\3" as re parses it: "\1" followed
\* by a digit is a two-digit group number (the pattern has three groups:
\* re.error), and followed by two octal digits it is an octal escape.
template(version) ==
    IF version # <<>> /\ version[1] \in Digits
    THEN IF Len(version) >= 2 /\ version[1] \in OctDigits /\ version[2] \in OctDigits
         THEN [ok |-> TRUE, group1 |-> FALSE,
               literal |-> <<chr(64 + 8 * oct(version[1]) + oct(version[2]))>>
                           \o SubSeq(version, 3, Len(version))]
         ELSE [ok |-> FALSE, group1 |-> FALSE, literal |-> <<>>]
    ELSE [ok |-> TRUE, group1 |-> TRUE, literal |-> version]

subn(text, version) ==
    LET t == template(version)
        hit(line) == version_match(line).open > 0
        sub(line) ==
            LET m == version_match(line)
            IN  (IF t.group1 THEN SubSeq(line, 1, m.open) ELSE <<>>)
                \o t.literal \o <<Quote>>
                \o SubSeq(line, m.close + 1, Len(line))
    IN  IF ~t.ok THEN Raise("re.error")
        ELSE Ok([text |-> Text([p \in 1..Len(text.lines) |->
                                   IF hit(text.lines[p]) THEN sub(text.lines[p])
                                   ELSE text.lines[p]],
                               text.nl),
                 count |-> Cardinality({p \in 1..Len(text.lines) : hit(text.lines[p])})])

\* ------------------------------------------------- lines 59-65
asset_name(version, label) ==
    <<"actr-">> \o version \o <<"-", targets[label], ".tar.gz">>

asset_url(repo, tag, asset) ==
    <<"https://github.com/", repo, "/releases/download/">> \o tag \o <<"/">> \o asset

NoAsset == [asset |-> <<>>, url |-> <<>>, sha |-> <<>>]

\* ------------------------------------------------- inputs
\* a formula file: every line the script looks for, and lines it must pass over
FormulaTemplate ==
    << <<" ", " ", "url", " ", Quote, "u0", Quote>>,
       <<" ", " ", "version", " ", Quote, "0", ".", "0", Quote>>,
       <<" ", " ">> \o Marker(MacosLabel),
       <<"\t", "sha256", " ", Quote, "s0", Quote>>,
       <<" ", "url", "\t", Quote, "u0", Quote>>,
       <<" ", " ", " ", " ", "url", " ", Quote, "u1", Quote, " ", "#", " ", "mac">>,
       <<"\t", "\t", "sha256", " ", Quote, "s1", Quote>>,
       Marker(LinuxLabel),
       <<" ", " ", "url", " ", Quote, "u2", Quote>>,
       <<" ", " ", "sha256", " ", Quote, "s2", Quote>>,
       <<" ">> \o Marker(MacosLabel) >>

\* seq without the positions in drop
RECURSIVE Without(_, _, _)
Without(seq, drop, p) ==
    IF p > Len(seq) THEN <<>>
    ELSE (IF p \in drop THEN <<>> ELSE <<seq[p]>>) \o Without(seq, drop, p + 1)

\* the formula file before the run: the template less up to MaxDrop lines,
\* with or without a final newline, or no file at all
Formulas ==
    {File(Without(FormulaTemplate, drop, 1), nl) :
        drop \in {d \in SUBSET (1..Len(FormulaTemplate)) : Cardinality(d) <= MaxDrop},
        nl \in BOOLEAN}
    \cup {NoFile}

\* <asset>.sha256 as sha256sum writes it, an empty one, or none
NoShaFile == [exists |-> FALSE, content |-> <<>>]
BlankFile == [exists |-> TRUE, content |-> <<"\n">>]
ShaFile(label) ==
    [exists |-> TRUE, content |-> <<"sha:", label, " ", " ", "actr.tar.gz", "\n">>]
DistDirs ==
    {d \in [{MacosLabel, LinuxLabel} ->
               {NoShaFile, BlankFile, ShaFile(MacosLabel), ShaFile(LinuxLabel)}] :
        \A l \in DOMAIN d : d[l] \in {NoShaFile, BlankFile, ShaFile(l)}}

\* the script as a process: its position, its arguments and files, its locals
NotRun ==
    [pc |-> "idle", version_arg |-> <<>>, formula |-> NoFile, original |-> NoFile,
     dist |-> [l \in {MacosLabel, LinuxLabel} |-> NoShaFile],
     version |-> <<>>, text |-> Text(<<>>, FALSE),
     assets |-> [l \in {MacosLabel, LinuxLabel} |-> NoAsset],
     writes |-> 0, exc |-> "", at |-> ""]

ScriptRuns ==
    {[NotRun EXCEPT !.pc = "start", !.version_arg = a, !.formula = f,
                    !.original = f, !.dist = d] :
        a \in VersionArgs, f \in Formulas, d \in DistDirs}

VARIABLES
    lifecycle,     \* runtime lifecycle state of the client workload
    workload,      \* EchoClientWorkload fields: server_id, ready
    readySets,     \* number of ready.set() executions
    onStart,       \* on_start hook: pc, outcome of ctx.discover, calls of it
    inv,           \* dispatch invocations on the client workload
    nInv,          \* invocations created so far
    mainPc,        \* position of the client's main / _run_app
    console,       \* console loop: lines read, awaited invocation, last print
    stop,          \* shutdown bookkeeping: requests, on_stop runs, transitions
    live,          \* echo server identities currently registered and alive
    script         \* update-brew-formula.py: position, arguments, files, locals

vars == <<lifecycle, workload, readySets, onStart, inv, nInv, mainPc, console,
          stop, live, script>>

InvIds == 1..MaxInv

NoOutcome == [kind |-> "none", exc |-> "", bytes |-> <<>>]
Returned(bytes) == [kind |-> "ok", exc |-> "", bytes |-> bytes]
Raised(exc) == [kind |-> "raise", exc |-> exc, bytes |-> <<>>]

NoInv == [pc |-> "none", origin |-> "", route |-> "", message |-> <<>>,
          payload |-> <<>>, waited |-> FALSE,
          request |-> EchoRequest(<<>>), passes |-> 0, calls |-> 0,
          dest |-> None, sentRoute |-> "", sent |-> EchoRequest(<<>>),
          response |-> <<>>, outcome |-> NoOutcome]

WorkloadInit ==
    /\ lifecycle = "Created"
    /\ workload = [server_id |-> None, ready |-> FALSE]
    /\ readySets = 0
    /\ onStart = [pc |-> "idle", discovery |-> "none", discovers |-> 0]
    /\ inv = [d \in InvIds |-> NoInv]
    /\ nInv = 0
    /\ mainPc = "init"
    /\ console = [last |-> "", awaiting |-> 0, printed |-> "", reply |-> <<>>]
    /\ stop = [phase |-> "none", requests |-> 0, mainRequests |-> 0,
               on_stop |-> 0, stopped |-> 0]

Init ==
    /\ WorkloadInit
    /\ live \in SUBSET ServerIds
    /\ script = NotRun

\* ------------------------------------------------- main, lines 97-100
\* from_toml, EchoClientWorkload(), attach, then node.start() begins the
\* lifecycle and main waits for the reference.
main_start ==
    /\ mainPc = "init"
    /\ mainPc' = "await_start"
    /\ lifecycle' = "Starting"
    /\ UNCHANGED <<script, workload, readySets, onStart, inv, nInv, console, stop, live>>

\* variant: ready.set() is called before `await ctx.discover` instead of after
on_start_begin_readyEarly ==
    /\ lifecycle = "Starting"
    /\ onStart.pc = "idle"
    /\ onStart' = [pc |-> "discover", discovery |-> "pending",
                   discovers |-> onStart.discovers + 1]
    /\ workload' = [workload EXCEPT !.ready = TRUE]
    /\ UNCHANGED <<script, lifecycle, readySets, inv, nInv, mainPc, console, stop, live>>

\* ------------------------------------------------- EchoClientWorkload.on_start
\* lines 52-55: the runtime invokes the hook; it runs up to `await ctx.discover`.
on_start_begin ==
    /\ lifecycle = "Starting"
    /\ onStart.pc = "idle"
    /\ onStart' = [pc |-> "discover", discovery |-> "pending",
                   discovers |-> onStart.discovers + 1]
    /\ UNCHANGED <<script, lifecycle, workload, readySets, inv, nInv, mainPc, console,
                   stop, live>>

\* variant: line 61 (self.ready.set()) is missing on the success path
on_start_discovered_noSet(id) ==
    /\ onStart.pc = "discover"
    /\ id \in live
    /\ workload' = [workload EXCEPT !.server_id = id]
    /\ onStart' = [onStart EXCEPT !.pc = "returned", !.discovery = "ok"]
    /\ UNCHANGED <<script, lifecycle, readySets, inv, nInv, mainPc, console, stop, live>>

\* lines 60-62: discover returned an identity.
on_start_discovered(id) ==
    /\ onStart.pc = "discover"
    /\ id \in live
    /\ workload' = [server_id |-> id, ready |-> TRUE]
    /\ readySets' = readySets + 1
    /\ onStart' = [onStart EXCEPT !.pc = "returned", !.discovery = "ok"]
    /\ UNCHANGED <<script, lifecycle, inv, nInv, mainPc, console, stop, live>>

\* variant: the handler logs and re-raises instead of continuing degraded
on_start_except_reraise ==
    /\ onStart.pc = "discover"
    /\ onStart' = [onStart EXCEPT !.pc = "raised", !.discovery = "failed"]
    /\ UNCHANGED <<script, lifecycle, workload, readySets, inv, nInv, mainPc, console,
                   stop, live>>

\* variant: line 58 (self.ready.set()) is missing in the handler
on_start_except_noSet ==
    /\ onStart.pc = "discover"
    /\ onStart' = [onStart EXCEPT !.pc = "returned", !.discovery = "failed"]
    /\ UNCHANGED <<script, lifecycle, workload, readySets, inv, nInv, mainPc, console,
                   stop, live>>

\* lines 56-59: discover raised ActrRuntimeError.
on_start_except ==
    /\ onStart.pc = "discover"
    /\ workload' = [workload EXCEPT !.ready = TRUE]
    /\ readySets' = readySets + 1
    /\ onStart' = [onStart EXCEPT !.pc = "returned", !.discovery = "failed"]
    /\ UNCHANGED <<script, lifecycle, inv, nInv, mainPc, console, stop, live>>

\* The runtime sees the hook end: Ready when it returned; a hook failure is
\* reported to the host and the workload goes to Stopped.
runtime_ready ==
    /\ lifecycle = "Starting"
    /\ onStart.pc \in {"returned", "raised"}
    /\ IF onStart.pc = "returned"
       THEN lifecycle' = "Ready" /\ UNCHANGED mainPc
       ELSE lifecycle' = "Stopped" /\ mainPc' = "failed"
    /\ UNCHANGED <<script, workload, readySets, onStart, inv, nInv, console, stop, live>>

\* node.start() returns the reference once on_start has returned and Ready
\* has been signalled.
node_start_return ==
    /\ mainPc = "await_start"
    /\ lifecycle = "Ready"
    /\ lifecycle' = "Running"
    /\ mainPc' = "run_app"
    /\ UNCHANGED <<script, workload, readySets, onStart, inv, nInv, console, stop, live>>

\* ------------------------------------------------- inbound calls
\* The runtime's argument record for one dispatch invocation.
NewInv(origin, route, request) ==
    [NoInv EXCEPT !.pc = "arrived", !.origin = origin, !.route = route,
                  !.message = request.message,
                  !.payload = SerializeRequest(request)]

\* ------------------------------------------------- EchoClientDispatcher.dispatch
\* What the caller of a dispatched call gets: the response, or a call failure
\* naming the error.
CallResult(o) ==
    IF o.kind = "ok" THEN [status |-> "response", error |-> ""]
    ELSE IF o.exc = "RuntimeError"
    THEN [status |-> "call_failure", error |-> "unrecognized route"]
    ELSE IF o.exc = "UnreachableDestination"
    THEN [status |-> "call_failure", error |-> "unreachable destination"]
    ELSE [status |-> "call_failure", error |-> o.exc]

\* variant: the `server_id is None` test of line 32 is missing
after_ready_noNoneCheck(r, w) ==
    [r EXCEPT !.pc = "calling", !.passes = @ + 1, !.calls = @ + 1,
              !.dest = w.server_id, !.sentRoute = EchoRoute, !.sent = r.request]

\* variant: the call carries a new, empty EchoRequest instead of the parsed one
after_ready_freshRequest(r, w) ==
    IF w.server_id = None
    THEN [r EXCEPT !.pc = "done", !.passes = @ + 1,
                   !.outcome = Returned(SerializeResponse(EchoResponse(NotAvailable, 0)))]
    ELSE [r EXCEPT !.pc = "calling", !.passes = @ + 1, !.calls = @ + 1,
                   !.dest = w.server_id, !.sentRoute = EchoRoute,
                   !.sent = EchoRequest(<<>>)]

\* lines 32-40, after `await workload.ready.wait()` has returned.
after_ready(r, w) ==
    IF w.server_id = None
    THEN [r EXCEPT !.pc = "done", !.passes = @ + 1,
                   !.outcome = Returned(SerializeResponse(EchoResponse(NotAvailable, 0)))]
    ELSE [r EXCEPT !.pc = "calling", !.passes = @ + 1, !.calls = @ + 1,
                   !.dest = w.server_id, !.sentRoute = EchoRoute,
                   !.sent = r.request]

\* variant: the route test of lines 26-27 is missing
dispatch_entry_noRouteCheck(r, w) ==
    LET parsed == [r EXCEPT !.request = ParseRequest(r.payload)]
    IN IF w.ready
       THEN IF w.server_id = None
            THEN [parsed EXCEPT !.pc = "done", !.passes = @ + 1,
                     !.outcome = Returned(SerializeResponse(EchoResponse(NotAvailable, 0)))]
            ELSE [parsed EXCEPT !.pc = "calling", !.passes = @ + 1, !.calls = @ + 1,
                     !.dest = w.server_id, !.sentRoute = EchoRoute,
                     !.sent = parsed.request]
       ELSE [parsed EXCEPT !.pc = "waiting", !.waited = TRUE]

\* variant: the route test comes after `await workload.ready.wait()`
dispatch_entry_waitFirst(r, w) ==
    IF ~w.ready
    THEN [r EXCEPT !.pc = "waiting", !.waited = TRUE,
                   !.request = ParseRequest(r.payload)]
    ELSE IF r.route # EchoRoute
    THEN [r EXCEPT !.pc = "done", !.outcome = Raised("RuntimeError")]
    ELSE after_ready([r EXCEPT !.request = ParseRequest(r.payload)], w)

\* lines 22-30 (and on to line 36 when the event is already set:
\* asyncio.Event.wait() returns at once, without suspending).
dispatch_entry(r, w) ==
    IF r.route # EchoRoute
    THEN [r EXCEPT !.pc = "done", !.outcome = Raised("RuntimeError")]
    ELSE LET parsed == [r EXCEPT !.request = ParseRequest(r.payload)]
         IN IF w.ready THEN after_ready(parsed, w)
            ELSE [parsed EXCEPT !.pc = "waiting", !.waited = TRUE]

\* A call from another actor addressed to the client's identity arrives and
\* the runtime invokes the workload's dispatcher for it.
remote_call(route, message) ==
    /\ lifecycle \in {"Starting", "Ready", "Running"}
    /\ nInv < MaxInv
    /\ nInv' = nInv + 1
    /\ inv' = [inv EXCEPT ![nInv + 1] =
                 dispatch_entry(NewInv("remote", route, EchoRequest(message)), workload)]
    /\ UNCHANGED <<script, lifecycle, workload, readySets, onStart, mainPc, console,
                   stop, live>>

\* variant: the waiter resets the event once it has passed (ready.clear())
dispatch_wake_clear(d) ==
    /\ inv[d].pc = "waiting"
    /\ workload.ready
    /\ inv' = [inv EXCEPT ![d] =
                 IF workload.server_id = None
                 THEN [@ EXCEPT !.pc = "done", !.passes = @ + 1,
                         !.outcome = Returned(SerializeResponse(EchoResponse(NotAvailable, 0)))]
                 ELSE [@ EXCEPT !.pc = "calling", !.passes = @ + 1, !.calls = @ + 1,
                         !.dest = workload.server_id, !.sentRoute = EchoRoute,
                         !.sent = inv[d].request]]
    /\ workload' = [workload EXCEPT !.ready = FALSE]
    /\ UNCHANGED <<script, lifecycle, readySets, onStart, nInv, mainPc, console, stop, live>>

\* variant: a dispatch that finds server_id None calls ctx.discover itself
dispatch_wake_rediscover(d) ==
    /\ inv[d].pc = "waiting"
    /\ workload.ready
    /\ IF workload.server_id = None
       THEN /\ onStart' = [onStart EXCEPT !.discovers = @ + 1]
            /\ \E id \in ServerIds \cup {None} :
                 /\ id \in live \cup {None}
                 /\ workload' = [workload EXCEPT !.server_id = id]
                 /\ inv' = [inv EXCEPT ![d] = after_ready(inv[d], workload')]
       ELSE /\ inv' = [inv EXCEPT ![d] = after_ready(inv[d], workload)]
            /\ UNCHANGED <<workload, onStart>>
    /\ UNCHANGED <<script, lifecycle, readySets, nInv, mainPc, console, stop, live>>

\* line 30 resumes: ready.set() released the waiter.
dispatch_wake(d) ==
    /\ inv[d].pc = "waiting"
    /\ workload.ready
    /\ inv' = [inv EXCEPT ![d] = after_ready(inv[d], workload)]
    /\ UNCHANGED <<script, lifecycle, workload, readySets, onStart, nInv, mainPc,
                   console, stop, live>>

\* ctx.call reaches a live destination: the server's dispatcher decodes the
\* request and EchoService.echo answers it.
server_dispatch(route, payload, time) ==
    IF route = EchoRoute
    THEN Returned(SerializeResponse(echo(ParseRequest(payload), time)))
    ELSE Raised("RuntimeError")

ctx_call_deliver(d, time) ==
    /\ inv[d].pc = "calling"
    /\ inv[d].dest \in live
    /\ LET res == server_dispatch(inv[d].sentRoute,
                                  SerializeRequest(inv[d].sent), time)
       IN inv' = [inv EXCEPT ![d] =
                    IF res.kind = "ok"
                    THEN [@ EXCEPT !.pc = "responded", !.response = res.bytes]
                    ELSE [@ EXCEPT !.pc = "done", !.outcome = Raised("CallFailed")]]
    /\ UNCHANGED <<script, lifecycle, workload, readySets, onStart, nInv, mainPc,
                   console, stop, live>>

\* variant: a failed call makes the dispatcher drop the discovered identity
ctx_call_unreachable_forget(d) ==
    /\ inv[d].pc = "calling"
    /\ inv[d].dest \notin live
    /\ inv' = [inv EXCEPT ![d] = [@ EXCEPT !.pc = "done",
                                   !.outcome = Raised("UnreachableDestination")]]
    /\ workload' = [workload EXCEPT !.server_id = None]
    /\ UNCHANGED <<script, lifecycle, readySets, onStart, nInv, mainPc, console, stop, live>>

\* variant: a failed call is issued once more before the failure is raised
ctx_call_unreachable_retry(d) ==
    /\ inv[d].pc = "calling"
    /\ inv[d].dest \notin live
    /\ inv' = [inv EXCEPT ![d] =
                 IF inv[d].calls < 2
                 THEN [@ EXCEPT !.calls = @ + 1]
                 ELSE [@ EXCEPT !.pc = "done",
                                !.outcome = Raised("UnreachableDestination")]]
    /\ UNCHANGED <<script, lifecycle, workload, readySets, onStart, nInv, mainPc,
                   console, stop, live>>

\* ctx.call to an identity that is gone: "unreachable destination"; line 36
\* raises and dispatch has no handler for it.
ctx_call_unreachable(d) ==
    /\ inv[d].pc = "calling"
    /\ inv[d].dest \notin live
    /\ inv' = [inv EXCEPT ![d] = [@ EXCEPT !.pc = "done",
                                   !.outcome = Raised("UnreachableDestination")]]
    /\ UNCHANGED <<script, lifecycle, workload, readySets, onStart, nInv, mainPc,
                   console, stop, live>>

\* lines 41-42: parse the response bytes and serialize them again.
dispatch_return(d) ==
    /\ inv[d].pc = "responded"
    /\ inv' = [inv EXCEPT ![d] = [@ EXCEPT !.pc = "done",
            !.outcome = Returned(SerializeResponse(ParseResponse(inv[d].response)))]]
    /\ UNCHANGED <<script, lifecycle, workload, readySets, onStart, nInv, mainPc,
                   console, stop, live>>

\* ------------------------------------------------- _run_app, lines 74-89
\* One line is read; quit/exit leaves the loop, an empty line continues,
\* anything else is sent with ref.call.
run_app_input(line) ==
    /\ mainPc = "run_app"
    /\ LET s == strip(line)
       IN IF s \in {Quit, Exit}
          THEN /\ mainPc' = "shutdown"
               /\ console' = [console EXCEPT !.last = "quit"]
               /\ UNCHANGED <<inv, nInv>>
          ELSE IF s = <<>>
          THEN /\ console' = [console EXCEPT !.last = "empty"]
               /\ UNCHANGED <<mainPc, inv, nInv>>
          ELSE /\ nInv < MaxInv
               /\ nInv' = nInv + 1
               /\ inv' = [inv EXCEPT ![nInv + 1] =
                            dispatch_entry(NewInv("console", EchoRoute, EchoRequest(s)),
                                           workload)]
               /\ console' = [console EXCEPT !.last = "call", !.awaiting = nInv + 1]
               /\ mainPc' = "app_call"
    /\ UNCHANGED <<script, lifecycle, workload, readySets, onStart, stop, live>>

\* line 75 at end of input: input() raises EOFError outside the try of lines
\* 83-89; it leaves _run_app and main, and line 104 is not reached.
run_app_eof ==
    /\ mainPc = "run_app"
    /\ mainPc' = "input_error"
    /\ console' = [console EXCEPT !.last = "eof"]
    /\ UNCHANGED <<script, lifecycle, workload, readySets, onStart, inv, nInv, stop, live>>

\* variant: no try/except around ref.call; a failure leaves _run_app and main
run_app_reply_fatal ==
    /\ mainPc = "app_call"
    /\ inv[console.awaiting].pc = "done"
    /\ LET o == inv[console.awaiting].outcome
       IN IF o.kind = "ok"
          THEN /\ console' = [console EXCEPT !.printed = "reply",
                                             !.reply = ParseResponse(o.bytes).reply]
               /\ mainPc' = "run_app"
          ELSE /\ mainPc' = "failed"
               /\ UNCHANGED console
    /\ UNCHANGED <<script, lifecycle, workload, readySets, onStart, inv, nInv, stop, live>>

\* lines 84-89: ref.call returned or raised; print and loop.
run_app_reply ==
    /\ mainPc = "app_call"
    /\ inv[console.awaiting].pc = "done"
    /\ LET o == inv[console.awaiting].outcome
       IN console' = IF o.kind = "ok"
                     THEN [console EXCEPT !.printed = "reply",
                                          !.reply = ParseResponse(o.bytes).reply]
                     ELSE [console EXCEPT !.printed = "error", !.reply = <<>>]
    /\ mainPc' = "run_app"
    /\ UNCHANGED <<script, lifecycle, workload, readySets, onStart, inv, nInv, stop,
                   live>>

\* ------------------------------------------------- shutdown
\* variant: every request starts the stop sequence again
ref_shutdown_restart(l) == [lifecycle |-> "Stopping", phase |-> "hook"]

\* reference.shutdown(): request Stopping; no effect once shutdown has started.
ref_shutdown(l) ==
    IF l.lifecycle \in {"Stopping", "Stopped"} THEN l
    ELSE [lifecycle |-> "Stopping", phase |-> "hook"]

Shutdown(byMain) ==
    LET l == ref_shutdown([lifecycle |-> lifecycle, phase |-> stop.phase])
    IN /\ lifecycle' = l.lifecycle
       /\ stop' = [stop EXCEPT !.phase = l.phase, !.requests = @ + 1,
                               !.mainRequests = @ + (IF byMain THEN 1 ELSE 0)]

\* main, line 104
main_shutdown ==
    /\ mainPc = "shutdown"
    /\ Shutdown(TRUE)
    /\ mainPc' = "wait_shutdown"
    /\ UNCHANGED <<script, workload, readySets, onStart, inv, nInv, console, live>>

\* a further reference.shutdown() after shutdown has started
ref_shutdown_again ==
    /\ stop.requests >= 1
    /\ stop.requests < MaxShutdown
    /\ Shutdown(FALSE)
    /\ UNCHANGED <<script, workload, readySets, onStart, inv, nInv, mainPc, console,
                   live>>

\* EchoClientWorkload.on_stop, lines 64-65: the runtime runs the hook.
on_stop ==
    /\ lifecycle = "Stopping"
    /\ stop.phase = "hook"
    /\ stop' = [stop EXCEPT !.phase = "hooked", !.on_stop = @ + 1]
    /\ UNCHANGED <<script, lifecycle, workload, readySets, onStart, inv, nInv, mainPc,
                   console, live>>

\* Stopping -> Stopped once the hook has run and in-flight dispatches drained.
runtime_stopped ==
    /\ lifecycle = "Stopping"
    /\ stop.phase = "hooked"
    /\ \A d \in InvIds : inv[d].pc \in {"none", "done"}
    /\ lifecycle' = "Stopped"
    /\ stop' = [stop EXCEPT !.phase = "stopped", !.stopped = @ + 1]
    /\ UNCHANGED <<script, workload, readySets, onStart, inv, nInv, mainPc, console,
                   live>>

\* variant: line 105 (await ref.wait_for_shutdown()) is missing
main_return_noWait ==
    /\ mainPc = "wait_shutdown"
    /\ mainPc' = "returned"
    /\ UNCHANGED <<script, lifecycle, workload, readySets, onStart, inv, nInv, console,
                   stop, live>>

\* main, lines 105-106: wait_for_shutdown returns, main returns 0.
main_return ==
    /\ mainPc = "wait_shutdown"
    /\ lifecycle = "Stopped"
    /\ mainPc' = "returned"
    /\ UNCHANGED <<script, lifecycle, workload, readySets, onStart, inv, nInv, console,
                   stop, live>>

\* ------------------------------------------------- environment
\* an echo server leaves: its identity is gone
server_gone(id) ==
    /\ id \in live
    /\ live' = live \ {id}
    /\ UNCHANGED <<script, lifecycle, workload, readySets, onStart, inv, nInv, mainPc,
                   console, stop>>

Next ==
    \/ main_start
    \/ on_start_begin
    \/ \E id \in ServerIds : on_start_discovered(id)
    \/ on_start_except
    \/ runtime_ready
    \/ node_start_return
    \/ \E c \in RemoteCalls : remote_call(c[1], c[2])
    \/ \E d \in InvIds : dispatch_wake(d)
    \/ \E d \in InvIds, time \in Times : ctx_call_deliver(d, time)
    \/ \E d \in InvIds : ctx_call_unreachable(d)
    \/ \E d \in InvIds : dispatch_return(d)
    \/ \E line \in ConsoleLines : run_app_input(line)
    \/ run_app_eof
    \/ run_app_reply
    \/ main_shutdown
    \/ ref_shutdown_again
    \/ on_stop
    \/ runtime_stopped
    \/ main_return
    \/ \E id \in ServerIds : server_gone(id)

Spec == Init /\ [][Next]_vars

\* The steps of the event loop and the runtime, as opposed to the inputs
\* (a console line, a call arriving from another actor, a server leaving,
\* a further shutdown request).
EventLoopStep ==
    \/ on_start_begin
    \/ \E id \in ServerIds : on_start_discovered(id)
    \/ on_start_except
    \/ runtime_ready
    \/ node_start_return
    \/ \E d \in InvIds : dispatch_wake(d)
    \/ \E d \in InvIds, time \in Times : ctx_call_deliver(d, time)
    \/ \E d \in InvIds : ctx_call_unreachable(d)
    \/ \E d \in InvIds : dispatch_return(d)
    \/ run_app_reply
    \/ on_stop
    \/ runtime_stopped
    \/ main_return

\* The event loop keeps running a task that can run; discover and call
\* resolve (with a result or a failure); the runtime completes its
\* lifecycle transitions.
Fairness == WF_vars(EventLoopStep)

FairSpec == Spec /\ Fairness

\* ================================================ update-brew-formula.py: main
clientVars == <<lifecycle, workload, readySets, onStart, inv, nInv, mainPc, console,
                stop, live>>

ScriptInit ==
    /\ WorkloadInit
    /\ live = {}
    /\ script \in ScriptRuns

\* lines 93-98: the exception is printed and raised again; nothing is written
Fail(exc) == [script EXCEPT !.pc = "error", !.exc = exc, !.at = script.pc]

\* lines 39-51: the arguments, version and tag, and the formula's text
main_read ==
    /\ script.pc = "start"
    /\ script' =
         IF ~script.formula.exists
         THEN [Fail("FileNotFoundError") EXCEPT
                 !.version = lstrip_chars(script.version_arg, {"v"})]
         ELSE [script EXCEPT
                 !.pc = "assets",
                 !.version = lstrip_chars(script.version_arg, {"v"}),
                 !.text = Text(script.formula.lines, script.formula.nl)]
    /\ UNCHANGED clientVars

\* lines 58-65, one pass of the loop: the next label without an asset yet
main_assets ==
    /\ script.pc = "assets"
    /\ LET i == CHOOSE p \in 1..Len(Labels) :
                    /\ script.assets[Labels[p]] = NoAsset
                    /\ \A q \in 1..(p - 1) : script.assets[Labels[q]] # NoAsset
           label == Labels[i]
           tag == <<"v">> \o script.version
           asset == asset_name(script.version, label)
           sha == read_sha(script.dist, label)
       IN  script' =
             IF ~sha.ok THEN Fail(sha.exc)
             ELSE [script EXCEPT
                     !.assets[label] = [asset |-> asset,
                                        url |-> asset_url(Repo, tag, asset),
                                        sha |-> sha.value],
                     !.pc = IF i = Len(Labels) THEN "version" ELSE "assets"]
    /\ UNCHANGED clientVars

main_version_writeEarly ==
    /\ script.pc = "version"
    /\ LET r == subn(script.text, script.version)
       IN  script' =
             IF ~r.ok THEN Fail(r.exc)
             ELSE IF r.value.count = 0 THEN Fail("ValueError")
             ELSE [script EXCEPT
                     !.text = r.value.text, !.pc = "replace_macos",
                     !.formula = File(r.value.text.lines, r.value.text.nl),
                     !.writes = @ + 1]
    /\ UNCHANGED clientVars

\* lines 67-74
main_version ==
    /\ script.pc = "version"
    /\ LET r == subn(script.text, script.version)
       IN  script' =
             IF ~r.ok THEN Fail(r.exc)
             ELSE IF r.value.count = 0 THEN Fail("ValueError")
             ELSE [script EXCEPT !.text = r.value.text, !.pc = "replace_macos"]
    /\ UNCHANGED clientVars

\* lines 76-81
main_replace_macos ==
    /\ script.pc = "replace_macos"
    /\ LET r == replace_after_marker(script.text, Marker(MacosLabel),
                                     script.assets[MacosLabel].url,
                                     script.assets[MacosLabel].sha)
       IN  script' =
             IF ~r.ok THEN Fail(r.exc)
             ELSE [script EXCEPT !.text = r.value, !.pc = "replace_linux"]
    /\ UNCHANGED clientVars

\* lines 82-87
main_replace_linux ==
    /\ script.pc = "replace_linux"
    /\ LET r == replace_after_marker(script.text, Marker(LinuxLabel),
                                     script.assets[LinuxLabel].url,
                                     script.assets[LinuxLabel].sha)
       IN  script' =
             IF ~r.ok THEN Fail(r.exc)
             ELSE [script EXCEPT !.text = r.value, !.pc = "write"]
    /\ UNCHANGED clientVars

\* lines 89-90
main_write ==
    /\ script.pc = "write"
    /\ script' = [script EXCEPT
                    !.formula = File(script.text.lines, script.text.nl),
                    !.writes = @ + 1,
                    !.pc = "done"]
    /\ UNCHANGED clientVars

ScriptNext ==
    \/ main_read
    \/ main_assets
    \/ main_version
    \/ main_replace_macos
    \/ main_replace_linux
    \/ main_write

ScriptSpec == ScriptInit /\ [][ScriptNext]_vars

\* ================================================================ claims
Degraded == EchoResponse(NotAvailable, 0)
Finished(d) == inv[d].pc = "done"
PastGate(d) == inv[d].pc \in {"calling", "responded", "done"}

\* ---- C1: a dispatch with a route key outside the dispatcher's table ends
\* with an "unrecognized route" call failure for its caller, without waiting
\* and without an outbound call, and the step that rejects it leaves the
\* workload, its lifecycle, main and every other invocation as they were.
C1_UnknownRouteFails ==
    /\ [](\A d \in InvIds :
            (inv[d].pc # "none" /\ inv[d].route # EchoRoute)
            => /\ Finished(d)
               /\ inv[d].outcome = Raised("RuntimeError")
               /\ CallResult(inv[d].outcome) =
                    [status |-> "call_failure", error |-> "unrecognized route"]
               /\ inv[d].calls = 0 /\ inv[d].passes = 0)
    /\ [][\A d \in InvIds :
            (inv[d].pc = "none" /\ inv'[d].pc # "none" /\ inv'[d].route # EchoRoute)
            => /\ UNCHANGED <<lifecycle, workload, readySets, onStart, mainPc, stop>>
               /\ \A e \in InvIds \ {d} : inv'[e] = inv[e]]_vars

\* an unknown route was rejected and a later-created echo dispatch was served
C1_Witness ==
    /\ inv[1].route = OtherRoute /\ Finished(1)
    /\ inv[2].route = EchoRoute /\ Finished(2) /\ inv[2].outcome.kind = "ok"
    /\ lifecycle = "Running"

C3_DegradedWhenDiscoveryFails ==
    \A d \in InvIds :
        [](( /\ onStart.discovery = "failed"
             /\ inv[d].pc # "none" /\ inv[d].route = EchoRoute)
           => <>( /\ Finished(d)
                  /\ inv[d].outcome.kind = "ok"
                  /\ ParseResponse(inv[d].outcome.bytes) = Degraded
                  /\ inv[d].calls = 0))

\* one dispatch waited for the gate, one came after it; both got the fallback
C3_Witness ==
    /\ onStart.discovery = "failed"
    /\ inv[1].route = EchoRoute /\ inv[1].waited /\ Finished(1)
    /\ inv[2].route = EchoRoute /\ ~inv[2].waited /\ Finished(2)
    /\ ParseResponse(inv[1].outcome.bytes) = Degraded
    /\ ParseResponse(inv[2].outcome.bytes) = Degraded

\* ---- C4: after a successful discovery of B, every echo-route dispatch that
\* has passed the gate has issued one call to B carrying route
\* "echo.EchoService.Echo"; when B's echo handler has answered, the dispatch
\* returns exactly B's response bytes, whose reply is "Echo: " followed by the
\* caller's message and whose timestamp is not 0.
C4_RoundTrip ==
    \A d \in InvIds :
        (onStart.discovery = "ok" /\ inv[d].route = EchoRoute /\ PastGate(d))
        => /\ inv[d].calls = 1
           /\ inv[d].dest = workload.server_id /\ inv[d].dest \in ServerIds
           /\ inv[d].sentRoute = EchoRoute
           /\ inv[d].pc = "responded"
                => /\ ParseResponse(inv[d].response).reply = EchoPrefix \o inv[d].message
                   /\ ParseResponse(inv[d].response).timestamp # 0
           /\ (Finished(d) /\ inv[d].outcome.kind = "ok")
                => /\ inv[d].outcome.bytes = inv[d].response
                   /\ ParseResponse(inv[d].outcome.bytes).reply = EchoPrefix \o inv[d].message
                   /\ ParseResponse(inv[d].outcome.bytes).timestamp # 0
           /\ (Finished(d) /\ inv[d].outcome.kind # "ok")
                => inv[d].outcome = Raised("UnreachableDestination")

\* the console sent "hi" and got "Echo: hi" printed
C4_Witness ==
    /\ onStart.discovery = "ok"
    /\ inv[1].origin = "console" /\ inv[1].message = Hi /\ Finished(1)
    /\ ParseResponse(inv[1].outcome.bytes).reply
         = <<"E", "c", "h", "o", ":", " ", "h", "i">>
    /\ ParseResponse(inv[1].outcome.bytes).timestamp # 0
    /\ console.printed = "reply" /\ console.reply = <<"E", "c", "h", "o", ":", " ", "h", "i">>

\* ---- C5: ready.set() runs at most once and the event never goes back to
\* unset; every dispatch that waits on the gate passes it exactly once, and
\* whenever a dispatch has passed it the event is (still) set.
C5_ReadinessMonotonic ==
    /\ [](/\ readySets <= 1
          /\ \A d \in InvIds :
                /\ inv[d].passes <= 1
                /\ (PastGate(d) /\ inv[d].route = EchoRoute) => inv[d].passes = 1
                /\ inv[d].pc = "waiting" => inv[d].passes = 0
                /\ inv[d].passes = 1 => workload.ready)
    /\ [][workload.ready => workload'.ready]_vars
    /\ [][\A d \in InvIds : inv'[d].passes >= inv[d].passes]_vars

\* one dispatch began waiting before the set, the other came after it
C5_Witness ==
    /\ inv[1].waited /\ inv[1].passes = 1
    /\ inv[2].route = EchoRoute /\ ~inv[2].waited /\ inv[2].passes = 1
    /\ readySets = 1

\* ---- C6: when discover has failed, on_start has returned normally (no
\* error reaches the host), the event is set, server_id is None, and the
\* lifecycle continues to Ready instead of ending in a failed start.
C6_DiscoveryFailureRecoverable ==
    onStart.discovery = "failed"
    => /\ onStart.pc = "returned"
       /\ workload.ready
       /\ workload.server_id = None
       /\ mainPc # "failed"
       /\ lifecycle = "Stopped" => stop.stopped = 1

C6_Witness ==
    onStart.discovery = "failed" /\ lifecycle = "Ready" /\ workload.server_id = None

\* ---- C7: an outbound call to an identity that is gone ends (it does not
\* stay pending) with an "unreachable destination" call failure for the
\* caller of the dispatch; the failing step leaves lifecycle, ready and
\* server_id as they were, and a console caller gets an error printed and
\* goes on reading.
C7_UnreachableFails ==
    /\ \A d \in InvIds :
         [](inv[d].pc = "calling" /\ inv[d].dest \notin live
            => <>(Finished(d) /\ CallResult(inv[d].outcome) =
                    [status |-> "call_failure", error |-> "unreachable destination"]))
    /\ [][\A d \in InvIds :
            (inv[d].pc = "calling" /\ inv'[d].outcome.kind = "raise")
            => /\ inv'[d].outcome = Raised("UnreachableDestination")
               /\ inv'[d].pc = "done"
               /\ UNCHANGED <<lifecycle, workload, readySets, mainPc>>]_vars
    /\ [](\A d \in InvIds :
            (inv[d].outcome.exc = "UnreachableDestination"
             /\ inv[d].origin = "console" /\ mainPc = "run_app")
            => (workload.ready /\ (console.awaiting = d => console.printed = "error")))

\* a console call failed as unreachable, and the next console call was served
C7_Witness ==
    /\ inv[1].origin = "console" /\ inv[1].outcome.exc = "UnreachableDestination"
    /\ inv[2].origin = "console" /\ Finished(2)
    /\ workload.ready /\ workload.server_id \in ServerIds
    /\ lifecycle = "Running"

\* ---- C8: a dispatch issues at most one outbound call; once its call has
\* been issued the count never grows, and a failed call ends the dispatch.
C8_AtMostOnce ==
    /\ [](\A d \in InvIds :
            /\ inv[d].calls <= 1
            /\ inv[d].route # EchoRoute => inv[d].calls = 0
            /\ inv[d].outcome.kind = "raise" => Finished(d))
    /\ [][\A d \in InvIds :
            /\ inv[d].calls = 1 => inv'[d].calls = 1
            /\ Finished(d) => inv'[d] = inv[d]]_vars

\* an outbound call failed and was not issued again
C8_Witness ==
    \E d \in InvIds :
        /\ Finished(d) /\ inv[d].outcome = Raised("UnreachableDestination")
        /\ inv[d].calls = 1

\* ---- C9: main holds the reference only when on_start has returned and the
\* workload is Ready; from then on the event is set and server_id no longer
\* changes, in particular whenever the console loop issues reference.call.
C9_StartReturnsAfterReady ==
    /\ [](mainPc \in {"run_app", "app_call", "shutdown", "wait_shutdown", "returned"}
          => /\ onStart.pc = "returned"
             /\ workload.ready
             /\ lifecycle \notin {"Created", "Starting"})
    /\ [][mainPc \notin {"init", "await_start"} => workload' = workload]_vars
    /\ [][(mainPc = "run_app" /\ mainPc' = "app_call")
          => (workload.ready /\ inv'[console'.awaiting].passes = 1)]_vars

C9_Witness ==
    mainPc = "app_call" /\ workload.ready /\ inv[console.awaiting].origin = "console"

\* ---- C10: a second reference.shutdown() changes nothing: on_stop runs once,
\* Stopping -> Stopped happens once, and the lifecycle never leaves
\* {Stopping, Stopped} nor goes from Stopped back to Stopping.
C10_ShutdownIdempotent ==
    /\ [](/\ stop.on_stop <= 1 /\ stop.stopped <= 1
          /\ (lifecycle = "Stopped" /\ mainPc # "failed")
                => (stop.on_stop = 1 /\ stop.stopped = 1))
    /\ [][/\ lifecycle = "Stopping" => lifecycle' \in {"Stopping", "Stopped"}
          /\ lifecycle = "Stopped" => lifecycle' = "Stopped"]_vars
    /\ [][(stop.requests >= 1 /\ stop'.requests > stop.requests)
          => (lifecycle' = lifecycle /\ stop'.phase = stop.phase
              /\ stop'.on_stop = stop.on_stop /\ stop'.stopped = stop.stopped)]_vars

\* shutdown was requested twice and the workload stopped once
C10_Witness ==
    /\ stop.requests = 2 /\ stop.mainRequests = 1
    /\ lifecycle = "Stopped" /\ stop.on_stop = 1 /\ stop.stopped = 1

\* ---- C11: server_id is not written once the event is set, so every echo
\* dispatch that has passed the gate saw the server_id the workload still
\* has: with None each returned the fallback without a call, with an identity
\* each issued its call to that identity.
C11_ConsistentBranch ==
    /\ [][workload.ready => workload'.server_id = workload.server_id]_vars
    /\ [](\A d \in InvIds :
            (inv[d].route = EchoRoute /\ PastGate(d))
            => /\ workload.server_id = None
                    => /\ Finished(d) /\ inv[d].calls = 0 /\ inv[d].dest = None
                       /\ ParseResponse(inv[d].outcome.bytes) = Degraded
               /\ workload.server_id # None
                    => inv[d].calls = 1 /\ inv[d].dest = workload.server_id)

\* two echo dispatches, one that waited and one that did not, forwarded alike
C11_Witness ==
    /\ inv[1].route = EchoRoute /\ inv[1].waited /\ inv[1].dest \in ServerIds
    /\ inv[2].route = EchoRoute /\ ~inv[2].waited /\ inv[2].dest = inv[1].dest

\* ---- C12: ctx.discover is called once, by on_start; nothing calls it after
\* on_start has returned, and after a failed discovery server_id is None in
\* every later state.
C12_SingleDiscovery ==
    /\ [](/\ onStart.discovers <= 1
          /\ onStart.pc \in {"discover", "returned"} => onStart.discovers = 1
          /\ onStart.discovery = "failed" => workload.server_id = None)
    /\ [][onStart.pc = "returned" => onStart' = onStart]_vars

\* discovery failed although a server was there, and dispatches came later
C12_Witness ==
    /\ onStart.discovery = "failed" /\ live # {}
    /\ inv[1].route = EchoRoute /\ inv[1].waited /\ Finished(1)
    /\ inv[2].route = EchoRoute /\ Finished(2)
    /\ lifecycle = "Stopped"

\* ---- C13 (as stated): in _run_app a finished ref.call always leads back
\* to the prompt, with "[Error]" printed when it failed and the reply printed
\* otherwise; the loop is left only from the prompt, and only for a line that
\* strips to "quit" or "exit"; a line that strips to nothing creates no
\* invocation.
C13_LoopEndsOnlyOnQuit ==
    /\ [][(mainPc = "app_call" /\ mainPc' # "app_call")
          => /\ mainPc' = "run_app"
             /\ inv[console.awaiting].outcome.kind = "raise"
                  => console'.printed = "error"
             /\ inv[console.awaiting].outcome.kind = "ok"
                  => console'.printed = "reply"]_vars
    /\ [][(mainPc \in {"run_app", "app_call"} /\ mainPc' \notin {"run_app", "app_call"})
          => (mainPc = "run_app" /\ mainPc' = "shutdown" /\ console'.last = "quit")]_vars
    /\ [][\A line \in ConsoleLines :
            run_app_input(line)
            => /\ mainPc' = "shutdown" <=> strip(line) \in {Quit, Exit}
               /\ strip(line) = <<>>
                    => (inv' = inv /\ nInv' = nInv /\ mainPc' = "run_app")]_vars

\* ---- C13 (amended): as above, except that the loop is also left, with an
\* EOFError that nothing catches, when input() meets the end of the input;
\* a failed ref.call never ends it, and a line that was read ends it exactly
\* when it strips to "quit" or "exit".
C13_ConsoleLoopSurvivesFailure ==
    /\ [][(mainPc = "app_call" /\ mainPc' # "app_call")
          => /\ mainPc' = "run_app"
             /\ inv[console.awaiting].outcome.kind = "raise"
                  => console'.printed = "error"
             /\ inv[console.awaiting].outcome.kind = "ok"
                  => console'.printed = "reply"]_vars
    /\ [][(mainPc \in {"run_app", "app_call"} /\ mainPc' \notin {"run_app", "app_call"})
          => /\ mainPc = "run_app"
             /\ \/ mainPc' = "shutdown" /\ console'.last = "quit"
                \/ mainPc' = "input_error" /\ console'.last = "eof"]_vars
    /\ [][\A line \in ConsoleLines :
            run_app_input(line)
            => /\ mainPc' = "shutdown" <=> strip(line) \in {Quit, Exit}
               /\ strip(line) = <<>>
                    => (inv' = inv /\ nInv' = nInv /\ mainPc' = "run_app")
               /\ strip(line) \notin {Quit, Exit, <<>>}
                    => (nInv' = nInv + 1 /\ mainPc' = "app_call")]_vars

\* after a failed call the loop read an empty line and is at the prompt again
C13_Witness ==
    /\ console.printed = "error" /\ console.last = "empty"
    /\ mainPc = "run_app"
    /\ inv[console.awaiting].outcome.kind = "raise"

C15_OutboundCallShape ==
    \A d \in InvIds :
        inv[d].calls >= 1
        => /\ workload.ready /\ inv[d].passes = 1
           /\ onStart.discovery = "ok"
           /\ inv[d].dest = workload.server_id
           /\ inv[d].dest # None /\ inv[d].dest \in ServerIds
           /\ inv[d].sentRoute = EchoRoute /\ inv[d].route = EchoRoute
           /\ inv[d].sent = EchoRequest(inv[d].message)
           /\ SerializeRequest(inv[d].sent) = inv[d].payload

\* a dispatch that had waited for the gate forwarded "hi"
C15_Witness ==
    \E d \in InvIds :
        /\ inv[d].calls = 1 /\ inv[d].waited
        /\ inv[d].sent = EchoRequest(Hi) /\ inv[d].pc = "calling"

\* ---- C16: a dispatch with an unknown route key is finished, with the
\* RuntimeError, in the very step that starts it, whatever the lifecycle
\* state and whether or not the event is set; it never waits on the gate.
C16_RejectBeforeWait ==
    /\ [](\A d \in InvIds :
            (inv[d].pc # "none" /\ inv[d].route # EchoRoute)
            => (~inv[d].waited /\ inv[d].pc # "waiting" /\ Finished(d)))
    /\ [][\A d \in InvIds :
            (inv[d].pc = "none" /\ inv'[d].pc # "none" /\ inv'[d].route # EchoRoute)
            => (inv'[d].pc = "done" /\ inv'[d].outcome = Raised("RuntimeError"))]_vars

\* rejected while discover was still pending and the event unset
C16_Witness ==
    \E d \in InvIds :
        /\ inv[d].route = OtherRoute /\ Finished(d)
        /\ onStart.pc = "discover" /\ ~workload.ready /\ lifecycle = "Starting"

\* ---- C17: update-brew-formula.py writes the formula file once, as its last
\* step, with the text every step produced; in every other state, the error
\* exits included, the file is as it was before the run.  When a sha256 file
\* is missing, the formula has no version line, or for a target the marker,
\* a url line after it or a sha256 line after that url line is missing, the
\* run never reaches the write, and the step that meets the failure ends the
\* run with the exception; a run that has not ended can take its next step.
HasVersionLine(file) ==
    \E p \in 1..Len(file.lines) : version_match(file.lines[p]).open > 0

MarkerComplete(file, label) ==
    \E i \in 1..Len(file.lines) :
        /\ In(Marker(label), file.lines[i])
        /\ \A q \in 1..(i - 1) : ~In(Marker(label), file.lines[q])
        /\ \E j \in (i + 1)..Len(file.lines) :
              /\ startswith(lstrip(file.lines[j]), UrlWord)
              /\ \A q \in (i + 1)..(j - 1) : ~startswith(lstrip(file.lines[q]), UrlWord)
              /\ \E k \in (j + 1)..Len(file.lines) :
                    startswith(lstrip(file.lines[k]), ShaWord)

Broken ==
    \/ \E l \in DOMAIN script.dist : ~script.dist[l].exists
    \/ ~script.original.exists
    \/ ~HasVersionLine(script.original)
    \/ \E l \in DOMAIN script.dist : ~MarkerComplete(script.original, l)

C17_WriteOnlyAfterAllSteps ==
    /\ [](script.pc # "done" => (script.formula = script.original /\ script.writes = 0))
    /\ [](script.pc = "done"
            => /\ script.writes = 1
               /\ script.formula = File(script.text.lines, script.text.nl)
               /\ \A l \in DOMAIN script.assets : script.assets[l] # NoAsset)
    /\ [](Broken => script.pc \notin {"write", "done"})
    /\ [](script.pc \notin {"idle", "done", "error"} => ENABLED ScriptNext)
    /\ [][/\ (script.pc = "assets" /\ \E l \in DOMAIN script.dist : ~script.dist[l].exists)
             => script'.pc \in {"assets", "error"}
          /\ (script.pc = "version" /\ ~HasVersionLine(script.text))
             => (script'.pc = "error" /\ script'.exc \in {"ValueError", "re.error"})
          /\ (script.pc = "replace_macos" /\ ~MarkerComplete(script.text, MacosLabel))
             => (script'.pc = "error" /\ script'.exc = "ValueError")
          /\ (script.pc = "replace_linux" /\ ~MarkerComplete(script.text, LinuxLabel))
             => (script'.pc = "error" /\ script'.exc = "ValueError")
          /\ script'.pc = "error" => script'.formula = script.original]_vars

\* the second target's sha256 line was missing: version, url and sha256 of the
\* first target were already replaced in the text, and the file is untouched
C17_Witness ==
    /\ script.pc = "error" /\ script.at = "replace_linux" /\ script.exc = "ValueError"
    /\ script.text.lines # script.original.lines
    /\ script.formula = script.original /\ script.formula.exists

\* ---- C18: a replace_after_marker that succeeds keeps the number of lines,
\* leaves every line unchanged except the first line starting with "url "
\* after the first line containing the marker and the first line starting
\* with "sha256 " after that url line; those two become url "<url>" and
\* sha256 "<sha>" behind their own indentation; applied again with the same
\* arguments to its result it returns that result.
Least(S) == CHOOSE p \in S : \A q \in S : p <= q

TwoLinesReplaced(old, new, marker, url, sha) ==
    LET n == Len(old.lines)
        i == Least({p \in 1..n : In(marker, old.lines[p])})
        j == Least({p \in (i + 1)..n : startswith(lstrip(old.lines[p]), UrlWord)})
        k == Least({p \in (j + 1)..n : startswith(lstrip(old.lines[p]), ShaWord)})
    IN  /\ Len(new.lines) = n
        /\ \A p \in 1..n : p \notin {j, k} => new.lines[p] = old.lines[p]
        /\ new.lines[j] = Indent(old.lines[j]) \o <<"url", " ", Quote>> \o url \o <<Quote>>
        /\ new.lines[k] = Indent(old.lines[k]) \o <<"sha256", " ", Quote>> \o sha \o <<Quote>>
        /\ Indent(new.lines[j]) = Indent(old.lines[j])
        /\ Indent(new.lines[k]) = Indent(old.lines[k])
        /\ replace_after_marker(new, marker, url, sha) = Ok(new)

====
